---------------------------- MODULE Spec2Model ----------------------------
(***************************************************************************)
(* Model of the solid primitives of csg.js:                                *)
(*   src/src/primitives/cylinderElliptic.js  cylinderElliptic, cylinder    *)
(*   src/unnamed/part_001                    ellipsoid, sphere             *)
(*                                                                         *)
(* Numbers.  Lengths are counted in half-tolerances (EPS = 2 units), so    *)
(* that the radii EPS/2 and EPS, where the minimum-angle formula takes the *)
(* exact values pi and pi/3, are integers; the length 1.0 of the defaults  *)
(* is One = 100 units.  Angles are counted in twelfths of a turn (TwoPi =  *)
(* 12 units, one unit = pi/6); the cosine of every such angle is           *)
(* +-sqrt(q)/2 with q in {0,1,3,4}, which lets the comparison with         *)
(* acos(...) of lines 61-63 be decided exactly in integers.                *)
(*                                                                         *)
(* Frame.  axisZ, axisX and axisY are computed from the height alone, the  *)
(* seed vector being a deterministic function of the axis, so a vertex     *)
(* carries the height and not the frame.                                   *)
(*                                                                         *)
(* Points.  A vertex is kept as the symbolic expression the code builds    *)
(* it from (which end, which slice parameter, which radius pair, ...), so  *)
(* two vertices are equal exactly when the code computes them from the     *)
(* same operands.                                                          *)
(***************************************************************************)
EXTENDS Integers, Sequences, FiniteSets, TLC

VARIABLES pc, fn, options, result, prev

vars == <<pc, fn, options, result, prev>>

-----------------------------------------------------------------------------
(* Units and bounds *)

\* the tolerance EPS of ../math/constants, in length units (half-tolerances)
EPS == 2
\* the length 1.0 in length units
One == 100
\* Math.PI * 2, in angle units of pi/6
TwoPi == 12

\* largest segment count passed explicitly to the cylinder generators
MaxSegments == 5
\* largest segment count passed explicitly to the ellipsoid generators
MaxEllipsoidSegments == 8

-----------------------------------------------------------------------------
(* Option objects: a field is <<>> when the caller omitted it, <<v>> else *)

Absent == <<>>
Some(v) == <<v>>

\* a JS value that is an array of numbers, or something that is not an array
Arr(s) == [array |-> TRUE, elems |-> s]
NotArray == [array |-> FALSE, elems |-> <<>>]

\* Object.assign({}, defaults, options), field by field
Assign(defaults, opts) ==
  [f \in DOMAIN defaults |-> IF opts[f] = Absent THEN defaults[f] ELSE opts[f][1]]

-----------------------------------------------------------------------------
(* Outcomes of a call *)

\* throw new Error(msg): no mesh is returned
Throw(msg, rot, sl) ==
  [ok |-> FALSE, error |-> msg, polygons |-> <<>>, rotation |-> rot, slices |-> sl]

\* return result
Return(polys, rot, sl) ==
  [ok |-> TRUE, error |-> "", polygons |-> polys, rotation |-> rot, slices |-> sl]

NoResult == [ok |-> FALSE, error |-> "not called", polygons |-> <<>>,
             rotation |-> <<>>, slices |-> <<>>]

\* poly3.fromPoints: the polygon is its ordered vertex list
poly3_fromPoints(points) == points

\* geom3.create: the mesh is its ordered polygon list
geom3_create(polygons) == polygons

-----------------------------------------------------------------------------
(* Arithmetic helpers *)

RECURSIVE GCD(_, _)
GCD(a, b) == IF b = 0 THEN a ELSE GCD(b, a % b)

\* the quotient n / d of two non-negative numbers, d > 0, as a reduced fraction
Quot(n, d) == LET g == GCD(n, d) IN <<n \div g, d \div g>>

Min2(a, b) == IF a < b THEN a ELSE b

\* Math.min(a, b, c, d)
Min4(a, b, c, d) == Min2(Min2(a, b), Min2(c, d))

\* Math.floor(segments * (rotation / (Math.PI * 2)))
Floor(segments, rotation) == (segments * rotation) \div TwoPi

\* 4 * cos(angle)^2 and the sign of cos(angle), angle in 0..6 units (0..pi)
CosSq4(a) == CASE a = 0 -> 4 [] a = 1 -> 3 [] a = 2 -> 1 [] a = 3 -> 0
               [] a = 4 -> 1 [] a = 5 -> 3 [] OTHER -> 4
CosSign(a) == IF a < 3 THEN 1 ELSE IF a = 3 THEN 0 ELSE -1

\* rotation < Math.acos(((r*r) + (r*r) - (EPS*EPS)) / (2*r*r)), r = minradius > 0.
\* With c = N/D the argument of acos: c < -1 gives NaN and the comparison is
\* false; otherwise rotation < acos(c) iff rotation <= pi and cos(rotation) > c.
RotationBelowMinangle(rotation, minradius) ==
  LET N == (minradius * minradius) + (minradius * minradius) - (EPS * EPS)
      D == 2 * minradius * minradius
      q == CosSq4(rotation)
      s == CosSign(rotation)
  IN  IF N < -D THEN FALSE
      ELSE IF rotation > TwoPi \div 2 THEN FALSE
      ELSE IF s >= 0
           THEN N < 0 \/ q * D * D > 4 * N * N
           ELSE N < 0 /\ q * D * D < 4 * N * N

-----------------------------------------------------------------------------
(* cylinderElliptic, src/src/primitives/cylinderElliptic.js:25-116 *)

cylinderEllipticDefaults ==
  [center |-> Arr(<<0, 0, 0>>),
   height |-> 2 * One,
   startRadius |-> <<One, One>>,
   startAngle |-> 0,
   endRadius |-> <<One, One>>,
   endAngle |-> TwoPi,
   segments |-> 12]

\* startAngle % (Math.PI * 2), for an angle that is not negative
ModTwoPi(angle) == angle % TwoPi

\* Rotation with the two comparisons merged into one that is not strict:
\* equal angles give a sweep of zero
Rotation_noFullSweep(startAngle, endAngle) ==
  IF startAngle <= endAngle THEN endAngle - startAngle
  ELSE endAngle + (TwoPi - startAngle)

\* lines 52-58, from the two reduced angles
Rotation(startAngle, endAngle) ==
  IF startAngle < endAngle THEN endAngle - startAngle
  ELSE IF startAngle > endAngle THEN endAngle + (TwoPi - startAngle)
  ELSE TwoPi

\* vec3.fromValues(0, 0, -(height/2)) and vec3.fromValues(0, 0, height/2)
start(c) == [kind |-> "start", stack |-> 0, slice |-> <<0, 1>>, radius |-> <<0, 0>>,
             rotation |-> 0, startAngle |-> 0, height |-> c.height]
end(c) == [kind |-> "end", stack |-> 1, slice |-> <<0, 1>>, radius |-> <<0, 0>>,
           rotation |-> 0, startAngle |-> 0, height |-> c.height]

\* point(stack, slice, radius): start + stack*ray + radius[0]*cos(angle)*axisX
\* + radius[1]*sin(angle)*axisY with angle = slice * rotation + startAngle
point(c, stack, slice, radius) ==
  [kind |-> "point", stack |-> stack, slice |-> slice, radius |-> radius,
   rotation |-> c.rotation, startAngle |-> c.startAngle, height |-> c.height]

\* fromPoints(...points): every point moved by center, then poly3.fromPoints
fromPoints(c, points) ==
  poly3_fromPoints([k \in DOMAIN points |-> [v |-> points[k], center |-> c.center.elems]])

\* slicePolygons with the side quad of the equal-radius branch wound the
\* other way round
slicePolygons_quadReversed(c, i) ==
  LET t0 == Quot(i, c.slices)
      t1 == Quot(i + 1, c.slices)
      sR == c.startRadius
      eR == c.endRadius
  IN  IF eR[1] = sR[1] /\ eR[2] = sR[2]
      THEN << fromPoints(c, <<start(c), point(c, 0, t0, eR), point(c, 0, t1, eR)>>),
              fromPoints(c, <<point(c, 0, t0, eR), point(c, 0, t1, eR),
                              point(c, 1, t1, eR), point(c, 1, t0, eR)>>),
              fromPoints(c, <<end(c), point(c, 1, t1, eR), point(c, 1, t0, eR)>>) >>
      ELSE << fromPoints(c, <<start(c), point(c, 0, t0, sR), point(c, 0, t1, sR)>>),
              fromPoints(c, <<point(c, 0, t0, sR), point(c, 1, t0, eR),
                              point(c, 0, t1, sR)>>),
              fromPoints(c, <<end(c), point(c, 1, t1, eR), point(c, 1, t0, eR)>>),
              fromPoints(c, <<point(c, 1, t0, eR), point(c, 1, t1, eR),
                              point(c, 0, t1, sR)>>) >>

\* the polygons pushed by one pass of the loop body, lines 90-106
slicePolygons(c, i) ==
  LET t0 == Quot(i, c.slices)
      t1 == Quot(i + 1, c.slices)
      sR == c.startRadius
      eR == c.endRadius
  IN  IF eR[1] = sR[1] /\ eR[2] = sR[2]
      THEN << fromPoints(c, <<start(c), point(c, 0, t0, eR), point(c, 0, t1, eR)>>),
              fromPoints(c, <<point(c, 0, t1, eR), point(c, 0, t0, eR),
                              point(c, 1, t0, eR), point(c, 1, t1, eR)>>),
              fromPoints(c, <<end(c), point(c, 1, t1, eR), point(c, 1, t0, eR)>>) >>
      ELSE (IF sR[1] > 0
            THEN << fromPoints(c, <<start(c), point(c, 0, t0, sR), point(c, 0, t1, sR)>>),
                    fromPoints(c, <<point(c, 0, t0, sR), point(c, 1, t0, eR),
                                    point(c, 0, t1, sR)>>) >>
            ELSE << >>)
           \o
           (IF eR[1] > 0
            THEN << fromPoints(c, <<end(c), point(c, 1, t1, eR), point(c, 1, t0, eR)>>),
                    fromPoints(c, <<point(c, 1, t0, eR), point(c, 1, t1, eR),
                                    point(c, 0, t1, sR)>>) >>
            ELSE << >>)

\* for (let i = 0; i < slices; i++) { ... }, lines 89-107
RECURSIVE slicesLoop(_, _, _)
slicesLoop(c, i, polygons) ==
  IF i < c.slices THEN slicesLoop(c, i + 1, polygons \o slicePolygons(c, i))
  ELSE polygons

\* wedgePolygons with the test rotation <= 2*pi: the walls are pushed for a
\* full sweep too
wedgePolygons_always(c) ==
  IF c.rotation <= TwoPi
  THEN << fromPoints(c, <<start(c), end(c), point(c, 0, <<0, 1>>, c.startRadius)>>),
          fromPoints(c, <<point(c, 0, <<0, 1>>, c.startRadius), end(c),
                          point(c, 1, <<0, 1>>, c.endRadius)>>),
          fromPoints(c, <<start(c), point(c, 0, <<1, 1>>, c.startRadius), end(c)>>),
          fromPoints(c, <<point(c, 0, <<1, 1>>, c.startRadius),
                          point(c, 1, <<1, 1>>, c.endRadius), end(c)>>) >>
  ELSE << >>

\* the four polygons closing a partial sweep, lines 108-113
wedgePolygons(c) ==
  IF c.rotation < TwoPi
  THEN << fromPoints(c, <<start(c), end(c), point(c, 0, <<0, 1>>, c.startRadius)>>),
          fromPoints(c, <<point(c, 0, <<0, 1>>, c.startRadius), end(c),
                          point(c, 1, <<0, 1>>, c.endRadius)>>),
          fromPoints(c, <<start(c), point(c, 0, <<1, 1>>, c.startRadius), end(c)>>),
          fromPoints(c, <<point(c, 0, <<1, 1>>, c.startRadius),
                          point(c, 1, <<1, 1>>, c.endRadius), end(c)>>) >>
  ELSE << >>

\* heightTooSmall with <= : the height 2*EPS is rejected too
heightTooSmall_inclusive(height) == height <= (EPS * 2)

\* radiusNotPositive with < : a zero radius is let through
radiusNotPositive_zeroAllowed(startRadius, endRadius) ==
  (endRadius[1] < 0) \/ (startRadius[1] < 0) \/ (endRadius[2] < 0) \/ (startRadius[2] < 0)

\* the conditions of the throws of lines 40, 42, 45 and 47
heightTooSmall(height) == height < (EPS * 2)

radiusNotPositive(startRadius, endRadius) ==
  (endRadius[1] <= 0) \/ (startRadius[1] <= 0) \/ (endRadius[2] <= 0) \/ (startRadius[2] <= 0)

angleNegative(startAngle, endAngle) == startAngle < 0 \/ endAngle < 0

segmentsTooFew(segments) == segments < 4

cylinderElliptic(opts) ==
  LET o == Assign(cylinderEllipticDefaults, opts)
      startAngle == ModTwoPi(o.startAngle)
      endAngle == ModTwoPi(o.endAngle)
      rotation == Rotation(startAngle, endAngle)
      minradius == Min4(o.startRadius[1], o.startRadius[2], o.endRadius[1], o.endRadius[2])
      slices == Floor(o.segments, rotation)
      c == [center |-> o.center, height |-> o.height,
            startRadius |-> o.startRadius, endRadius |-> o.endRadius,
            startAngle |-> startAngle, rotation |-> rotation, slices |-> slices]
  IN  IF ~o.center.array THEN Throw("center must be an array", <<>>, <<>>)
      ELSE IF Len(o.center.elems) < 3
        THEN Throw("center must contain X, Y and Z values", <<>>, <<>>)
      ELSE IF heightTooSmall(o.height)
        THEN Throw("height must be larger then zero", <<>>, <<>>)
      ELSE IF radiusNotPositive(o.startRadius, o.endRadius)
        THEN Throw("endRadus and startRadius should be positive", <<>>, <<>>)
      ELSE IF angleNegative(o.startAngle, o.endAngle)
        THEN Throw("startAngle and endAngle must be positive", <<>>, <<>>)
      ELSE IF segmentsTooFew(o.segments)
        THEN Throw("segments must be four or more", <<>>, <<>>)
      ELSE IF RotationBelowMinangle(rotation, minradius)
        THEN Throw("startAngle and endAngle to not define a significant rotation",
                   <<rotation>>, <<>>)
      ELSE Return(geom3_create(slicesLoop(c, 0, <<>>) \o wedgePolygons(c)),
                  <<rotation>>, <<slices>>)

-----------------------------------------------------------------------------
(* cylinder, src/src/primitives/cylinderElliptic.js:137-160 *)

\* cylinderDefaults with endAngle Math.PI
cylinderDefaults_halfTurn ==
  [center |-> Arr(<<0, 0, 0>>),
   height |-> 2 * One,
   startRadius |-> One,
   startAngle |-> 0,
   endRadius |-> One,
   endAngle |-> TwoPi \div 2,
   segments |-> 12]

cylinderDefaults ==
  [center |-> Arr(<<0, 0, 0>>),
   height |-> 2 * One,
   startRadius |-> One,
   startAngle |-> 0,
   endRadius |-> One,
   endAngle |-> TwoPi,
   segments |-> 12]

\* cylinder with endRadius built from startRadius
cylinder_endFromStart(opts) ==
  LET o == Assign(cylinderDefaults, opts)
      newoptions == [center |-> Some(o.center),
                     height |-> Some(o.height),
                     startRadius |-> Some(<<o.startRadius, o.startRadius>>),
                     startAngle |-> Some(o.startAngle),
                     endRadius |-> Some(<<o.startRadius, o.startRadius>>),
                     endAngle |-> Some(o.endAngle),
                     segments |-> Some(o.segments)]
  IN  cylinderElliptic(newoptions)

cylinder(opts) ==
  LET o == Assign(cylinderDefaults, opts)
      newoptions == [center |-> Some(o.center),
                     height |-> Some(o.height),
                     startRadius |-> Some(<<o.startRadius, o.startRadius>>),
                     startAngle |-> Some(o.startAngle),
                     endRadius |-> Some(<<o.endRadius, o.endRadius>>),
                     endAngle |-> Some(o.endAngle),
                     segments |-> Some(o.segments)]
  IN  cylinderElliptic(newoptions)

-----------------------------------------------------------------------------
(* ellipsoid, src/unnamed/part_001:17-88 *)

ellipsoidDefaults ==
  [center |-> Arr(<<0, 0, 0>>),
   radius |-> Arr(<<One, One, One>>),
   segments |-> 12,
   axes |-> <<<<1, 0, 0>>, <<0, -1, 0>>, <<0, 0, 1>>>>]

\* Round4 with Math.floor
Round4_floor(segments) == segments \div 4

\* Math.round(segments / 4), segments a non-negative integer
Round4(segments) == (segments + 2) \div 4

\* points.reverse()
Reverse(s) == [k \in 1..Len(s) |-> s[Len(s) + 1 - k]]

\* vec3.add(center, cos(pitch)*cylinderpoint -+ sin(pitch)*zvector): the corner
\* at longitude angle 2*pi*lon/segments and pitch 0.5*pi*lat/qsegments of the
\* hemisphere hemi (-1: zvector subtracted, lines 53-62; 1: added, lines 67-76)
corner(c, lon, lat, hemi) ==
  [lon |-> <<lon, c.segments>>, lat |-> <<lat, c.qsegments>>, hemi |-> hemi,
   radius |-> c.radius, axes |-> c.axes, center |-> c.center]

\* the points of one patch, lines 51-62 and 66-76, before any reversal;
\* prevlon, lon: previous and current longitude step (prevcylinderpoint,
\* cylinderpoint); prevlat, lat: previous and current pitch step
patch(c, prevlon, lon, prevlat, lat, hemi) ==
  << corner(c, prevlon, prevlat, hemi), corner(c, lon, prevlat, hemi) >>
  \o (IF lat < c.qsegments THEN << corner(c, lon, lat, hemi) >> ELSE << >>)
  \o << corner(c, prevlon, lat, hemi) >>

\* for (let slice2 = 0; slice2 <= qsegments; slice2++) { ... }, lines 46-83
RECURSIVE pitchLoop(_, _, _, _, _, _)
pitchLoop(c, prevlon, lon, slice2, prevpitch, polygons) ==
  IF slice2 <= c.qsegments
  THEN pitchLoop(c, prevlon, lon, slice2 + 1, slice2,
         IF slice2 > 0
         THEN polygons \o
              << poly3_fromPoints(patch(c, prevlon, lon, prevpitch, slice2, -1)),
                 poly3_fromPoints(Reverse(patch(c, prevlon, lon, prevpitch, slice2, 1))) >>
         ELSE polygons)
  ELSE polygons

\* for (let slice1 = 0; slice1 <= segments; slice1++) { ... }, lines 41-86
RECURSIVE longitudeLoop(_, _, _, _)
longitudeLoop(c, slice1, prevcylinderpoint, polygons) ==
  IF slice1 <= c.segments
  THEN longitudeLoop(c, slice1 + 1, slice1,
         IF slice1 > 0
         THEN pitchLoop(c, prevcylinderpoint, slice1, 0, 0, polygons)
         ELSE polygons)
  ELSE polygons

ellipsoid(opts) ==
  LET o == Assign(ellipsoidDefaults, opts)
      c == [center |-> o.center.elems, radius |-> o.radius.elems, axes |-> o.axes,
            segments |-> o.segments, qsegments |-> Round4(o.segments)]
  IN  IF ~o.center.array THEN Throw("center must be an array", <<>>, <<>>)
      ELSE IF Len(o.center.elems) < 3
        THEN Throw("center must contain X, Y and Z values", <<>>, <<>>)
      ELSE IF ~o.radius.array THEN Throw("radius must be an array", <<>>, <<>>)
      ELSE IF Len(o.radius.elems) < 3
        THEN Throw("radius must contain X, Y and Z values", <<>>, <<>>)
      ELSE IF o.segments < 4 THEN Throw("segments must be four or more", <<>>, <<>>)
      ELSE Return(geom3_create(longitudeLoop(c, 0, 0, <<>>)), <<>>, <<>>)

-----------------------------------------------------------------------------
(* sphere, src/unnamed/part_001:100-114 *)

sphereDefaults ==
  [center |-> Arr(<<0, 0, 0>>),
   radius |-> One,
   segments |-> 12,
   axes |-> <<<<1, 0, 0>>, <<0, -1, 0>>, <<0, 0, 1>>>>]

\* sphere that does not forward axes
sphere_axesDropped(opts) ==
  LET o == Assign(sphereDefaults, opts)
      radius == Arr(<<o.radius, o.radius, o.radius>>)
  IN  ellipsoid([center |-> Some(o.center), radius |-> Some(radius),
                 segments |-> Some(o.segments), axes |-> Absent])

sphere(opts) ==
  LET o == Assign(sphereDefaults, opts)
      radius == Arr(<<o.radius, o.radius, o.radius>>)
  IN  ellipsoid([center |-> Some(o.center), radius |-> Some(radius),
                 segments |-> Some(o.segments), axes |-> Some(o.axes)])

-----------------------------------------------------------------------------
(* The calls made: every option object over small value sets *)

Opt(S) == {Absent} \cup {Some(v) : v \in S}

Centers == {NotArray, Arr(<<0, 0>>), Arr(<<5, 5, 5>>)}
Heights == {EPS * 2 - 1, EPS * 2, 2 * One}
RadiusPairs == {<<One, EPS>>, <<EPS, EPS>>, <<0, One>>, <<One, -1>>}
Radii == {One, EPS, 0}
StartAngles == {-1, 5, TwoPi + 2}
EndAngles == {-1, 0, 1, 2, 5, 8, TwoPi, TwoPi + 1}
Segments == 3 .. MaxSegments
EllipsoidSegments == 3 .. MaxEllipsoidSegments
RadiusTriples == {NotArray, Arr(<<One, EPS>>), Arr(<<One, One, One>>),
                  Arr(<<One, 2 * One, 3 * One>>)}
Axes == {<<<<2, 0, 0>>, <<0, 2, 0>>, <<0, 0, 2>>>>}

cylinderEllipticOptions ==
  [center : Opt(Centers), height : Opt(Heights),
   startRadius : Opt(RadiusPairs), startAngle : Opt(StartAngles),
   endRadius : Opt(RadiusPairs), endAngle : Opt(EndAngles),
   segments : Opt(Segments)]

cylinderOptions ==
  [center : Opt(Centers), height : Opt(Heights),
   startRadius : Opt(Radii), startAngle : Opt(StartAngles),
   endRadius : Opt(Radii), endAngle : Opt(EndAngles),
   segments : Opt(Segments)]

ellipsoidOptions ==
  [center : Opt(Centers), radius : Opt(RadiusTriples),
   segments : Opt(EllipsoidSegments), axes : Opt(Axes)]

sphereOptions ==
  [center : Opt(Centers), radius : Opt(Radii),
   segments : Opt(EllipsoidSegments), axes : Opt(Axes)]

-----------------------------------------------------------------------------
(* The state machine: a caller holding an option object calls one of the  *)
(* four generators, gets the outcome, and may call again with the same    *)
(* object; prev keeps the outcome of the call before.                     *)

Init ==
  /\ pc = "ready"
  /\ fn \in {"cylinderElliptic", "cylinder", "ellipsoid", "sphere"}
  /\ options \in CASE fn = "cylinderElliptic" -> cylinderEllipticOptions
                   [] fn = "cylinder" -> cylinderOptions
                   [] fn = "ellipsoid" -> ellipsoidOptions
                   [] OTHER -> sphereOptions
  /\ result = NoResult
  /\ prev = NoResult

CallCylinderElliptic ==
  /\ pc = "ready" /\ fn = "cylinderElliptic"
  /\ result' = cylinderElliptic(options)
  /\ pc' = "done"
  /\ UNCHANGED <<fn, options, prev>>

CallCylinder ==
  /\ pc = "ready" /\ fn = "cylinder"
  /\ result' = cylinder(options)
  /\ pc' = "done"
  /\ UNCHANGED <<fn, options, prev>>

CallEllipsoid ==
  /\ pc = "ready" /\ fn = "ellipsoid"
  /\ result' = ellipsoid(options)
  /\ pc' = "done"
  /\ UNCHANGED <<fn, options, prev>>

CallSphere ==
  /\ pc = "ready" /\ fn = "sphere"
  /\ result' = sphere(options)
  /\ pc' = "done"
  /\ UNCHANGED <<fn, options, prev>>

\* the caller keeps the outcome and gets ready to call again
Again ==
  /\ pc = "done"
  /\ prev' = result
  /\ result' = NoResult
  /\ pc' = "ready"
  /\ UNCHANGED <<fn, options>>

Next == CallCylinderElliptic \/ CallCylinder \/ CallEllipsoid \/ CallSphere \/ Again

Spec == Init /\ [][Next]_vars

-----------------------------------------------------------------------------
(* Properties of cylinderElliptic *)

Called(f) == pc = "done" /\ fn = f

\* the configuration of a cylinderElliptic call, omitted fields defaulted
Cfg == Assign(cylinderEllipticDefaults, options)

CenterInvalid(center) == ~center.array \/ Len(center.elems) < 3

RadiiEqual(cfg) ==
  cfg.startRadius[1] = cfg.endRadius[1] /\ cfg.startRadius[2] = cfg.endRadius[2]

\* the kind of a polygon's k-th vertex: "start", "end" or "point"
Kind(poly, k) == poly[k].v.kind

\* the shapes a slice contributes: <<vertex count, kind of first vertex>>
SliceShape(equal) ==
  IF equal THEN << <<3, "start">>, <<4, "point">>, <<3, "end">> >>
  ELSE << <<3, "start">>, <<3, "point">>, <<3, "end">>, <<3, "point">> >>

\* C1: an accepted cylinderElliptic call returns, with
\* slices = floor(segments * rotation / 2pi), exactly 3*slices polygons when
\* startRadius = endRadius component-wise (per slice a start-cap triangle, a
\* 4-vertex side quad, an end-cap triangle) and 4*slices when they differ (per
\* slice two cap triangles and two side triangles), followed by exactly 4
\* wedge-wall triangles when rotation < 2pi and by nothing when rotation = 2pi.
C1_PolygonCount ==
  (Called("cylinderElliptic") /\ result.ok) =>
    LET rot == result.rotation[1]
        n == (Cfg.segments * rot) \div TwoPi
        shape == SliceShape(RadiiEqual(Cfg))
        per == Len(shape)
        polys == result.polygons
    IN  /\ Len(polys) = per * n + (IF rot < TwoPi THEN 4 ELSE 0)
        /\ \A k \in 1 .. per * n :
             /\ Len(polys[k]) = shape[((k - 1) % per) + 1][1]
             /\ Kind(polys[k], 1) = shape[((k - 1) % per) + 1][2]
        /\ \A k \in per * n + 1 .. Len(polys) : Len(polys[k]) = 3

\* C1 witness: a partial sweep with different radii and two slices, returning
\* 4*2 + 4 polygons.
C1_Witness ==
  /\ Called("cylinderElliptic") /\ result.ok
  /\ ~RadiiEqual(Cfg)
  /\ result.rotation[1] < TwoPi
  /\ result.slices[1] = 2
  /\ Len(result.polygons) = 12

\* C3: when cylinderElliptic has computed its rotation from non-negative
\* angles, then with both reduced modulo 2pi the rotation is end - start when
\* start < end, end + (2pi - start) when start > end, and 2pi when they are
\* equal; so it lies in (0, 2pi] and is never zero.
C3_Rotation ==
  (Called("cylinderElliptic") /\ result.rotation # <<>>
     /\ Cfg.startAngle >= 0 /\ Cfg.endAngle >= 0) =>
    LET s == Cfg.startAngle % TwoPi
        e == Cfg.endAngle % TwoPi
        rot == result.rotation[1]
    IN  /\ s < e => rot = e - s
        /\ s > e => rot = e + (TwoPi - s)
        /\ s = e => rot = TwoPi
        /\ 0 < rot /\ rot <= TwoPi

\* C3 witness: startAngle = 0 with endAngle = 2pi passed explicitly reduces to
\* equal angles and gives the full sweep.
C3_Witness ==
  /\ Called("cylinderElliptic") /\ result.ok
  /\ Cfg.startAngle = 0 /\ options.endAngle = Some(TwoPi)
  /\ result.rotation = <<TwoPi>>

\* C3 second case seen: a sweep that wraps through 0 (start > end after
\* reduction).
C3_WrapReached ==
  /\ Called("cylinderElliptic") /\ result.ok
  /\ Cfg.startAngle % TwoPi > Cfg.endAngle % TwoPi
  /\ result.rotation[1] = (Cfg.endAngle % TwoPi) + TwoPi - (Cfg.startAngle % TwoPi)

\* the field an error message names ("radius": startRadius / endRadius,
\* "angle": startAngle / endAngle)
ErrorField(msg) ==
  CASE msg = "center must be an array" -> "center"
    [] msg = "center must contain X, Y and Z values" -> "center"
    [] msg = "height must be larger then zero" -> "height"
    [] msg = "endRadus and startRadius should be positive" -> "radius"
    [] msg = "startAngle and endAngle must be positive" -> "angle"
    [] msg = "segments must be four or more" -> "segments"
    [] OTHER -> "none"

\* the fields of a configuration that break a validation rule
Offending(cfg) ==
  (IF CenterInvalid(cfg.center) THEN {"center"} ELSE {})
  \cup (IF cfg.height < 2 * EPS THEN {"height"} ELSE {})
  \cup (IF \E r \in {cfg.startRadius, cfg.endRadius} : r[1] <= 0 \/ r[2] <= 0
        THEN {"radius"} ELSE {})
  \cup (IF cfg.startAngle < 0 \/ cfg.endAngle < 0 THEN {"angle"} ELSE {})
  \cup (IF cfg.segments < 4 THEN {"segments"} ELSE {})

\* C4: whenever height < 2*EPS, or segments < 4, or a radius component is zero
\* or negative, or startAngle or endAngle is negative, cylinderElliptic fails
\* with an error, no polygon is built and no mesh is returned, and the error
\* names a field that breaks its rule (the one offending field when there is
\* only one).
C4_ValidationFails ==
  (Called("cylinderElliptic")
     /\ Offending(Cfg) \cap {"height", "segments", "radius", "angle"} # {}) =>
    /\ ~result.ok
    /\ result.polygons = <<>>
    /\ ErrorField(result.error) \in Offending(Cfg)

\* C4 witness: segments = 3 is the only offending field and the error names
\* segments.
C4_Witness ==
  /\ Called("cylinderElliptic")
  /\ options.segments = Some(3)
  /\ Offending(Cfg) = {"segments"}
  /\ ~result.ok /\ result.polygons = <<>>
  /\ result.error = "segments must be four or more"

\* C5 as stated: every height <= 2*EPS, 2*EPS itself included, is rejected
\* with an error and no mesh.
C5_RejectsUpToTwoEps ==
  (Called("cylinderElliptic") /\ Cfg.height <= 2 * EPS) =>
    (~result.ok /\ result.polygons = <<>>)

\* C5 amended: cylinderElliptic accepts a height only if it is at least
\* 2*EPS: every height < 2*EPS is rejected with an error and no mesh, while
\* height = 2*EPS passes the height check and is accepted when nothing else
\* is wrong.
C5_RejectsBelowTwoEps ==
  Called("cylinderElliptic") =>
    /\ result.ok => Cfg.height >= 2 * EPS
    /\ Cfg.height < 2 * EPS => (~result.ok /\ result.polygons = <<>>)
    /\ Cfg.height = 2 * EPS => ErrorField(result.error) # "height"
    /\ (Cfg.height = 2 * EPS /\ Offending(Cfg) = {}
          /\ result.error # "startAngle and endAngle to not define a significant rotation")
         => result.ok

\* C5 witness: a call with height exactly 2*EPS that returns a mesh.
C5_Witness ==
  /\ Called("cylinderElliptic")
  /\ Cfg.height = 2 * EPS
  /\ result.ok /\ Len(result.polygons) > 0

\* C10: every accepted cylinderElliptic call has a slice count
\* floor(segments * rotation / 2pi) of at least 1, so the mesh holds cap and
\* side polygons and is never the 4 wedge-wall polygons alone.
C10_AtLeastOneSlice ==
  (Called("cylinderElliptic") /\ result.ok) =>
    /\ result.slices[1] >= 1
    /\ Len(result.polygons) > 4

-----------------------------------------------------------------------------
(* Properties of cylinder *)

\* the call of the example: cylinder({height: 2, startRadius: 1, endRadius: 1,
\* segments: 4})
ExampleOptions ==
  [center |-> Absent, height |-> Some(2 * One), startRadius |-> Some(One),
   startAngle |-> Absent, endRadius |-> Some(One), endAngle |-> Absent,
   segments |-> Some(4)]

\* the polygons of a mesh with n vertices whose first vertex is of kind k
Polys(mesh, n, k) == {i \in 1 .. Len(mesh) : Len(mesh[i]) = n /\ Kind(mesh[i], 1) = k}

\* C2 as stated: the example call returns 2 cap polygons of 4 vertices each
\* (one per end) plus 4 side quads, 6 polygons in total.
C2_SixPolygons ==
  (Called("cylinder") /\ options = ExampleOptions) =>
    /\ result.ok
    /\ Len(result.polygons) = 6
    /\ Cardinality(Polys(result.polygons, 4, "start")) = 1
    /\ Cardinality(Polys(result.polygons, 4, "end")) = 1
    /\ Cardinality(Polys(result.polygons, 4, "point")) = 4

\* C2 amended: the example call returns 4 start-cap triangles, 4 side quads
\* and 4 end-cap triangles, 12 polygons in total, and a repeated call with
\* that input returns the same total.
C2_TwelvePolygons ==
  (Called("cylinder") /\ options = ExampleOptions) =>
    /\ result.ok
    /\ Len(result.polygons) = 12
    /\ Cardinality(Polys(result.polygons, 3, "start")) = 4
    /\ Cardinality(Polys(result.polygons, 3, "end")) = 4
    /\ Cardinality(Polys(result.polygons, 4, "point")) = 4
    /\ prev # NoResult => Len(prev.polygons) = Len(result.polygons)

\* C2 witness: the example call, made a second time, returns 12 polygons.
C2_Witness ==
  /\ Called("cylinder") /\ options = ExampleOptions
  /\ prev.ok
  /\ Len(result.polygons) = 12

\* the cylinderElliptic call the claim pairs a cylinder call with: scalar
\* radii r become [r, r], every other field, given or omitted, stays as it is
Paired(opts) ==
  [opts EXCEPT
     !.startRadius = IF @ = Absent THEN Absent ELSE Some(<<@[1], @[1]>>),
     !.endRadius = IF @ = Absent THEN Absent ELSE Some(<<@[1], @[1]>>)]

\* C6: a cylinder call gives the outcome of cylinderElliptic called with
\* startRadius [r0, r0], endRadius [r1, r1] and all other fields identical:
\* the same error, or the same polygons with the same vertices in the same
\* order; omitted fields take the same defaults in both.
C6_CylinderIsElliptic ==
  Called("cylinder") => result = cylinderElliptic(Paired(options))

\* C6 witness: a cylinder call with startRadius omitted and a different
\* endRadius given, over a partial sweep, that returns a mesh.
C6_Witness ==
  /\ Called("cylinder") /\ result.ok
  /\ options.startRadius = Absent /\ options.endRadius = Some(EPS)
  /\ result.rotation[1] < TwoPi
  /\ Len(result.polygons) >= 8

-----------------------------------------------------------------------------
(* Closedness of the cylinder mesh *)

\* a vertex as the claim identifies it: the two axis points, and a surface
\* point by its end and angular step index (slice * slices), the index slices
\* being the index 0 in a full sweep
VertexId(vertex, slices, full) ==
  LET p == vertex.v
  IN  IF p.kind = "start" THEN <<0, -1, <<0, 0>>>>
      ELSE IF p.kind = "end" THEN <<1, -1, <<0, 0>>>>
      ELSE LET idx == (p.slice[1] * slices) \div p.slice[2]
           IN  <<p.stack, IF full THEN idx % slices ELSE idx, p.radius>>

\* the directed edges of a polygon
Edges(poly, slices, full) ==
  {<<VertexId(poly[k], slices, full), VertexId(poly[(k % Len(poly)) + 1], slices, full)>> :
     k \in 1 .. Len(poly)}

RECURSIVE SumLen(_, _)
SumLen(mesh, k) == IF k = 0 THEN 0 ELSE Len(mesh[k]) + SumLen(mesh, k - 1)

\* every directed edge occurs exactly once in the mesh, and its reverse occurs
\* (hence exactly once) in another polygon
Closed(mesh, slices, full) ==
  LET polyEdges == [i \in 1 .. Len(mesh) |-> Edges(mesh[i], slices, full)]
      all == UNION {polyEdges[i] : i \in 1 .. Len(mesh)}
  IN  /\ Cardinality(all) = SumLen(mesh, Len(mesh))
      /\ \A i \in 1 .. Len(mesh) :
           \A e \in polyEdges[i] :
             /\ <<e[2], e[1]>> \in all
             /\ <<e[2], e[1]>> \notin polyEdges[i]

\* C9: an accepted cylinderElliptic call with at least one slice returns a
\* closed, consistently oriented boundary: every directed edge of every
\* polygon occurs exactly once in the mesh and its reversed edge occurs
\* exactly once, in another polygon.
C9_ClosedBoundary ==
  (Called("cylinderElliptic") /\ result.ok /\ result.slices[1] >= 1) =>
    Closed(result.polygons, result.slices[1], result.rotation[1] = TwoPi)

\* C9 witness: a one-slice wedge with different radii, 8 polygons, closed.
C9_Witness ==
  /\ Called("cylinderElliptic") /\ result.ok
  /\ result.slices[1] = 1 /\ result.rotation[1] < TwoPi
  /\ ~RadiiEqual(Cfg)
  /\ Len(result.polygons) = 8
  /\ Closed(result.polygons, 1, FALSE)

\* C9 second case seen: a full sweep with equal radii, closed through the
\* identification of step slices with step 0.
C9_FullSweepReached ==
  /\ Called("cylinderElliptic") /\ result.ok
  /\ result.rotation[1] = TwoPi /\ RadiiEqual(Cfg)
  /\ Closed(result.polygons, result.slices[1], TRUE)

-----------------------------------------------------------------------------
(* Properties of ellipsoid and sphere *)

ECfg == Assign(ellipsoidDefaults, options)

\* the ellipsoid call the claim pairs a sphere call with
PairedEllipsoid(opts) ==
  [opts EXCEPT
     !.radius = IF @ = Absent THEN Absent ELSE Some(Arr(<<@[1], @[1], @[1]>>))]

\* C7: a sphere call with scalar radius r gives the outcome of ellipsoid
\* called with radius [r, r, r] and the same center, segments and axes: the
\* same error, or the same polygons with the same vertices in the same order;
\* omitted fields take the same defaults in both.
C7_SphereIsEllipsoid ==
  Called("sphere") => result = ellipsoid(PairedEllipsoid(options))

\* C7 witness: a sphere call with a given radius and axes that returns a
\* mesh.
C7_Witness ==
  /\ Called("sphere") /\ result.ok
  /\ options.radius = Some(EPS) /\ options.axes # Absent
  /\ Len(result.polygons) > 0

Max(S) == CHOOSE x \in S : \A y \in S : y <= x

\* the longitude step, latitude step and hemisphere of a patch
LonStep(poly) == Max({poly[k].lon[1] : k \in 1 .. Len(poly)})
LatStep(poly) == Max({poly[k].lat[1] : k \in 1 .. Len(poly)})
Hemi(poly) == poly[1].hemi

\* C8: for segments >= 4 and qsegments = round(segments / 4), ellipsoid
\* returns exactly 2 * segments * qsegments polygons, one per hemisphere for
\* each longitude step and latitude step; a polygon of the last latitude step
\* has exactly 3 vertices and every other polygon exactly 4.
C8_EllipsoidPolygons ==
  (Called("ellipsoid") /\ result.ok) =>
    LET seg == ECfg.segments
        q == IF seg % 4 >= 2 THEN seg \div 4 + 1 ELSE seg \div 4
        polys == result.polygons
    IN  /\ seg >= 4
        /\ Len(polys) = 2 * seg * q
        /\ {<<Hemi(polys[k]), LonStep(polys[k]), LatStep(polys[k])>> : k \in 1 .. Len(polys)}
             = {-1, 1} \X (1 .. seg) \X (1 .. q)
        /\ \A k \in 1 .. Len(polys) :
             /\ Len(polys[k]) = IF LatStep(polys[k]) = q THEN 3 ELSE 4
             /\ Len(polys[k]) >= 3

\* C8 witness: segments = 6, where round(6/4) = 2: 24 polygons, quads in the
\* first latitude row and triangles in the pole row.
C8_Witness ==
  /\ Called("ellipsoid") /\ result.ok
  /\ ECfg.segments = 6
  /\ Len(result.polygons) = 24
  /\ \E k \in 1 .. 24 : Len(result.polygons[k]) = 4
  /\ \E k \in 1 .. 24 : Len(result.polygons[k]) = 3

=============================================================================
